---- MODULE Spec2Model ----
(***************************************************************************)
(* State-machine model of the GSC tracking application: the document       *)
(* store (clusters, links, link_performance, domain_properties), the       *)
(* request handlers of routes/clusters.py and routes/dashboard.py, the     *)
(* background fetch fetch_3months_gsc_data_for_link, and the session        *)
(* middleware of mongo_session.py.                                         *)
(***************************************************************************)
EXTENDS Integers, Sequences, FiniteSets, TLC

\* ------------------------------------------------------------------ bounds
MaxNow == 2          \* the clock (datetime.utcnow) runs over 1..MaxNow
MaxClusters == 1     \* cluster documents ever inserted
MaxLinks == 2        \* link documents ever inserted
MaxTasks == 2        \* background fetch tasks ever scheduled
MaxRouteLinks == 1   \* link documents ever inserted, in SpecRoutes
MaxRouteTasks == 2   \* background fetch tasks ever scheduled, in SpecRoutes
MaxReqs == 2         \* requests that ever enter the session middleware
MaxSids == 2         \* session ids uuid4 ever generates
MaxDays == 9         \* the clock of SpecSession, in days, runs over 1..MaxDays
MaxCalls == 3        \* calls of flash and get_flashed_messages, in SpecFlash
MaxNamed == 2        \* cluster documents ever inserted, in SpecNames

\* ------------------------------------------------------- values and domains
None == "none"       \* Python None / a key that is absent from a dict
NoTime == 0          \* a timestamp field holding None

Users == {"u1", "u2"}


\* urlparse of the link urls the requests carry: scheme and netloc (as its
\* characters); "" is a url that is empty after strip().
ParseUrl(u) ==
    CASE u = "https://a.c/x" -> [scheme |-> "https", netloc |-> <<"a", ".", "c">>]
      [] u = "https://a.c/y" -> [scheme |-> "https", netloc |-> <<"a", ".", "c">>]
      [] u = "http://ba.c/x" -> [scheme |-> "http", netloc |-> <<"b", "a", ".", "c">>]
      [] u = "https://a.c/"  -> [scheme |-> "https", netloc |-> <<"a", ".", "c">>]
      [] OTHER               -> [scheme |-> "", netloc |-> <<>>]


\* str.endswith on character sequences
EndsWith(s, suffix) ==
    /\ Len(suffix) <= Len(s)
    /\ SubSeq(s, Len(s) - Len(suffix) + 1, Len(s)) = suffix

\* The part of an "sc-domain:" property after the prefix, as characters.
DomainPart(d) ==
    CASE d = "sc-domain:a.c" -> <<"a", ".", "c">>
      [] OTHER               -> <<>>

StartsWithScDomain(d) == d = "sc-domain:a.c"

check_domain_consistency(cluster_domain, link_url) ==
    IF cluster_domain = None \/ link_url = "" THEN FALSE
    ELSE LET parsed_link == ParseUrl(link_url) IN
         IF parsed_link.scheme = "" \/ parsed_link.netloc = <<>> THEN FALSE
         ELSE IF StartsWithScDomain(cluster_domain)
              THEN /\ DomainPart(cluster_domain) # <<>>
                   /\ EndsWith(parsed_link.netloc, DomainPart(cluster_domain))
              ELSE LET parsed_cluster == ParseUrl(cluster_domain) IN
                   /\ parsed_cluster.scheme # ""
                   /\ parsed_cluster.netloc # <<>>
                   /\ parsed_link.scheme = parsed_cluster.scheme
                   /\ parsed_link.netloc = parsed_cluster.netloc

\* ------------------------------------------------------------------- state
VARIABLES
    now,        \* datetime.utcnow(), in ticks
    session,    \* the browser's session data: user_id, selected_site, credentials
    clusters,   \* db.clusters: a set of documents
    links,      \* db.links
    perf,       \* db.link_performance
    domains,    \* db.domain_properties
    tasks,      \* the background fetch tasks, by task number
    nextCluster, nextLink, nextTask,   \* the next fresh _id of each kind
    store,      \* db.fastapi_sessions: session documents by session id
    reqs,       \* requests inside MongoSessionMiddleware.dispatch
    nextSid     \* the next fresh uuid4

dbvars == <<clusters, links, perf, domains>>
idvars == <<nextCluster, nextLink, nextTask>>
mwvars == <<store, reqs, nextSid>>
vars == <<now, session, clusters, links, perf, domains, tasks,
          nextCluster, nextLink, nextTask, store, reqs, nextSid>>

EmptySession == [user_id |-> None, selected_site |-> None, credentials |-> None]


\* ----------------------------------------------------------------- helpers
\* find_one: the first matching document in insertion (_id) order
FirstById(S) == CHOOSE d \in S : \A e \in S : d.id <= e.id

\* ------------------------------------------------- routes/auth.py (session)
\* oauth2callback for a session whose authorize step stored the OAuth state:
\* the token exchange stores the credentials, then the userinfo request either
\* succeeds (user_id is stored) or fails (only the credentials are stored).
\* kind is "full", or "partial" when Google returned no refresh_token.
AfterCallback(s, u, kind, userinfo_ok) ==
    [s EXCEPT !.credentials = kind, !.user_id = IF userinfo_ok THEN u ELSE @]

oauth2callback(u, kind, userinfo_ok) ==
    /\ session' = AfterCallback(session, u, kind, userinfo_ok)
    /\ UNCHANGED <<now, dbvars, tasks, idvars, mwvars>>

logout ==
    /\ session' = EmptySession
    /\ UNCHANGED <<now, dbvars, tasks, idvars, mwvars>>

\* -------------------------------------------------- routes/dashboard.py
DomainDoc(u, s) == {d \in domains : d.userId = u /\ d.siteUrl = s}

\* update_one(..., upsert=True) of sites_list for one GSC site entry
UpsertSite(ds, u, s, t) ==
    IF \E d \in ds : d.userId = u /\ d.siteUrl = s
    THEN {IF d.userId = u /\ d.siteUrl = s
          THEN [d EXCEPT !.updatedAt = t, !.active = TRUE, !.permissionLevel = "siteOwner"]
          ELSE d : d \in ds}
    ELSE ds \cup {[userId |-> u, siteUrl |-> s, active |-> TRUE,
                   permissionLevel |-> "siteOwner", createdAt |-> t, updatedAt |-> t]}

RECURSIVE UpsertSites(_, _, _, _)
UpsertSites(ds, u, todo, t) ==
    IF todo = {} THEN ds
    ELSE LET s == CHOOSE x \in todo : TRUE
         IN UpsertSites(UpsertSite(ds, u, s, t), u, todo \ {s}, t)

\* sites_list: gsc is the set of siteUrls Search Console reports for the
\* user (the call may also raise: gsc_ok = FALSE).
sites_list(gsc, gsc_ok) ==
    /\ IF session.credentials = None \/ session.user_id = None \/ ~gsc_ok
       THEN UNCHANGED domains
       ELSE LET u == session.user_id
                local_site_urls == {d.siteUrl : d \in {e \in domains : e.userId = u}}
                removed_sites == local_site_urls \ gsc
                upserted == UpsertSites(domains, u, gsc, now)
            IN domains' = {IF d.userId = u /\ d.siteUrl \in removed_sites
                           THEN [d EXCEPT !.active = FALSE, !.updatedAt = now,
                                          !.permissionLevel = "N/A"]
                           ELSE d : d \in upserted}
    /\ UNCHANGED <<now, session, clusters, links, perf, tasks, idvars, mwvars>>

\* select_site: site_url is the posted form field ("" when empty).
select_site(site_url) ==
    IF site_url = ""
    THEN UNCHANGED vars
    ELSE /\ session' = [session EXCEPT !.selected_site = site_url]
         /\ IF session.user_id # None
            THEN LET u == session.user_id IN
                 domains' =
                    IF DomainDoc(u, site_url) # {}
                    THEN {IF d.userId = u /\ d.siteUrl = site_url
                          THEN [d EXCEPT !.updatedAt = now, !.active = TRUE]
                          ELSE d : d \in domains}
                    ELSE domains \cup {[userId |-> u, siteUrl |-> site_url,
                                        active |-> TRUE, permissionLevel |-> None,
                                        createdAt |-> now, updatedAt |-> now]}
            ELSE UNCHANGED domains
         /\ UNCHANGED <<now, clusters, links, perf, tasks, idvars, mwvars>>

\* --------------------------------------------- routes/clusters.py: clusters
\* `x or "ALL"` / `x.strip() or "ALL"` on a filter string
OrAllDevice(d) == IF d = "" THEN "ALL" ELSE d
OrAllCountry(f) == IF f = <<>> THEN <<"ALL">> ELSE f
\* str.strip() of a whole countryFilter string: only a blank string changes
StripCountry(f) == IF f = <<" ">> THEN <<>> ELSE f

ClusterById(cid) == {c \in clusters : c.id = cid}
LinksOf(ls, cid) == {l \in ls : l.clusterId = cid}

\* The loop of new_cluster_json_action over payload.clusters: skips empty
\* names, stops at the first name that already exists (trashed or not) and
\* keeps what it inserted before. Returns the collection and the next _id.
RECURSIVE InsertClusters(_, _, _, _, _, _)
InsertClusters(cs, next, payload, user_id, domain, t) ==
    IF payload = <<>> THEN [clusters |-> cs, next |-> next]
    ELSE LET cluster_data == Head(payload)
             name_stripped == cluster_data.clusterName
         IN IF name_stripped = ""
            THEN InsertClusters(cs, next, Tail(payload), user_id, domain, t)
            ELSE IF \E c \in cs : /\ c.userId = user_id
                                  /\ c.domain = domain
                                  /\ c.clusterName = name_stripped
                 THEN [clusters |-> cs, next |-> next]
                 ELSE InsertClusters(
                        cs \cup {[id |-> next, userId |-> user_id, domain |-> domain,
                                  clusterName |-> name_stripped,
                                  deviceFilter |-> OrAllDevice(cluster_data.deviceFilter),
                                  countryFilter |-> OrAllCountry(cluster_data.countryFilter),
                                  deleted |-> FALSE, deletedAt |-> NoTime,
                                  createdAt |-> t, updatedAt |-> t]},
                        next + 1, Tail(payload), user_id, domain, t)

new_cluster_json_action(payload) ==
    /\ IF session.user_id = None \/ session.selected_site = None
       THEN UNCHANGED <<clusters, nextCluster>>
       ELSE LET r == InsertClusters(clusters, nextCluster, payload, session.user_id,
                                    session.selected_site, now)
            IN /\ clusters' = r.clusters
               /\ nextCluster' = r.next
    /\ UNCHANGED <<now, session, links, perf, domains, tasks, nextLink, nextTask, mwvars>>

edit_cluster_action(cluster_id, clusterName, deviceFilter, countryFilter) ==
    /\ IF session.user_id = None \/ ClusterById(cluster_id) = {}
       THEN UNCHANGED clusters
       ELSE LET cluster == FirstById(ClusterById(cluster_id))
                new_name == clusterName
                new_device == OrAllDevice(deviceFilter)
                new_country == OrAllCountry(StripCountry(countryFilter))
                existing == {c \in clusters : /\ c.userId = cluster.userId
                                              /\ c.domain = cluster.domain
                                              /\ c.clusterName = new_name
                                              /\ c.id # cluster.id}
            IN IF new_name = "" \/ existing # {}
               THEN UNCHANGED clusters
               ELSE clusters' = {IF c.id = cluster.id
                                 THEN [c EXCEPT !.clusterName = new_name,
                                                !.deviceFilter = new_device,
                                                !.countryFilter = new_country,
                                                !.updatedAt = now]
                                 ELSE c : c \in clusters}
    /\ UNCHANGED <<now, session, links, perf, domains, tasks, idvars, mwvars>>

\* The two routes as the threads of the server run them: the duplicate check
\* and the write are two calls of the driver, and other requests run between
\* them. reqs holds the calls in progress.
\* str.strip() on the names that are posted
StripName(name) ==
    CASE name = " a" -> "a"
      [] name = " " -> ""
      [] OTHER -> name

\* Lines 177-194: the session is read and the loop begins.
new_cluster_begin(payload) ==
    /\ session.user_id # None /\ session.selected_site # None
    /\ Len(reqs) < MaxReqs
    /\ reqs' = Append(reqs, [route |-> "new_cluster_json_action",
                             pc |-> IF payload = <<>> THEN "done" ELSE "check",
                             user_id |-> session.user_id,
                             domain |-> session.selected_site,
                             payload |-> payload,
                             cluster_id |-> None,
                             now |-> now])
    /\ UNCHANGED <<now, session, dbvars, tasks, idvars, store, nextSid>>

\* Lines 198-236: one turn of the loop up to the find_one for a duplicate.
new_cluster_check(r) ==
    /\ r \in DOMAIN reqs
    /\ reqs[r].route = "new_cluster_json_action"
    /\ reqs[r].pc = "check"
    /\ LET cluster_data == Head(reqs[r].payload)
           rest == Tail(reqs[r].payload)
           name_stripped == StripName(cluster_data.clusterName)
           existing == {c \in clusters : /\ c.userId = reqs[r].user_id
                                         /\ c.domain = reqs[r].domain
                                         /\ c.clusterName = name_stripped}
       IN reqs' = [reqs EXCEPT ![r] =
                      IF name_stripped = ""
                      THEN [@ EXCEPT !.payload = rest,
                                     !.pc = IF rest = <<>> THEN "done" ELSE "check"]
                      ELSE IF existing # {}
                           THEN [@ EXCEPT !.pc = "done"]
                           ELSE [@ EXCEPT !.pc = "write"]]
    /\ UNCHANGED <<now, session, dbvars, tasks, idvars, store, nextSid>>

\* Lines 239-252: insert_one, and the loop goes on.
new_cluster_insert(r, max_clusters) ==
    /\ r \in DOMAIN reqs
    /\ reqs[r].route = "new_cluster_json_action"
    /\ reqs[r].pc = "write"
    /\ nextCluster <= max_clusters
    /\ LET cluster_data == Head(reqs[r].payload)
           rest == Tail(reqs[r].payload)
       IN /\ clusters' = clusters \cup
                {[id |-> nextCluster, userId |-> reqs[r].user_id, domain |-> reqs[r].domain,
                  clusterName |-> StripName(cluster_data.clusterName),
                  deviceFilter |-> OrAllDevice(cluster_data.deviceFilter),
                  countryFilter |-> OrAllCountry(cluster_data.countryFilter),
                  deleted |-> FALSE, deletedAt |-> NoTime,
                  createdAt |-> reqs[r].now, updatedAt |-> reqs[r].now]}
          /\ reqs' = [reqs EXCEPT ![r].payload = rest,
                                  ![r].pc = IF rest = <<>> THEN "done" ELSE "check"]
    /\ nextCluster' = nextCluster + 1
    /\ UNCHANGED <<now, session, links, perf, domains, tasks, nextLink, nextTask,
                   store, nextSid>>

\* Lines 364-390: the session test, find_one of the cluster, the names stripped.
edit_cluster_begin(cluster_id, clusterName, deviceFilter, countryFilter) ==
    /\ session.user_id # None
    /\ ClusterById(cluster_id) # {}
    /\ Len(reqs) < MaxReqs
    /\ LET cluster == FirstById(ClusterById(cluster_id)) IN
       reqs' = Append(reqs, [route |-> "edit_cluster_action",
                             pc |-> IF StripName(clusterName) = "" THEN "done" ELSE "check",
                             user_id |-> cluster.userId,
                             domain |-> cluster.domain,
                             payload |-> <<[clusterName |-> StripName(clusterName),
                                            deviceFilter |-> OrAllDevice(deviceFilter),
                                            countryFilter |->
                                                OrAllCountry(StripCountry(countryFilter))]>>,
                             cluster_id |-> cluster.id,
                             now |-> NoTime])
    /\ UNCHANGED <<now, session, dbvars, tasks, idvars, store, nextSid>>

\* Lines 391-401: find_one for another cluster of the name.
edit_cluster_check(r) ==
    /\ r \in DOMAIN reqs
    /\ reqs[r].route = "edit_cluster_action"
    /\ reqs[r].pc = "check"
    /\ LET existing == {c \in clusters : /\ c.userId = reqs[r].user_id
                                         /\ c.domain = reqs[r].domain
                                         /\ c.clusterName = reqs[r].payload[1].clusterName
                                         /\ c.id # reqs[r].cluster_id}
       IN reqs' = [reqs EXCEPT ![r].pc = IF existing # {} THEN "done" ELSE "write"]
    /\ UNCHANGED <<now, session, dbvars, tasks, idvars, store, nextSid>>

\* Lines 406-417: update_one on the _id.
edit_cluster_update(r) ==
    /\ r \in DOMAIN reqs
    /\ reqs[r].route = "edit_cluster_action"
    /\ reqs[r].pc = "write"
    /\ clusters' = {IF c.id = reqs[r].cluster_id
                    THEN [c EXCEPT !.clusterName = reqs[r].payload[1].clusterName,
                                   !.deviceFilter = reqs[r].payload[1].deviceFilter,
                                   !.countryFilter = reqs[r].payload[1].countryFilter,
                                   !.updatedAt = now]
                    ELSE c : c \in clusters}
    /\ reqs' = [reqs EXCEPT ![r].pc = "done"]
    /\ UNCHANGED <<now, session, links, perf, domains, tasks, idvars, store, nextSid>>

\* The three writes shared by delete_cluster and trash_cluster: the cluster,
\* update_many on its links, update_many on the rows of all its links.
SoftDeleteLinksTouching(ls, cid, t) ==
    {IF l.clusterId = cid /\ l.deleted # TRUE
     THEN [l EXCEPT !.deleted = TRUE, !.deletedAt = t, !.status = "deleted"]
     ELSE l : l \in ls}

SoftDeleteLinks(ls, cid, t) ==
    {IF l.clusterId = cid /\ l.deleted # TRUE
     THEN [l EXCEPT !.deleted = TRUE, !.deletedAt = t] ELSE l : l \in ls}

SoftDeleteRowsOfNone(rows, link_ids, t) == rows

SoftDeleteRows(rows, link_ids, t) ==
    {IF r.linkId \in link_ids /\ r.deleted # "true"
     THEN [r EXCEPT !.deleted = "true", !.deletedAt = t] ELSE r : r \in rows}

SoftDeleteCluster(cluster) ==
    /\ clusters' = {IF c.id = cluster.id
                    THEN [c EXCEPT !.deleted = TRUE, !.deletedAt = now]
                    ELSE c : c \in clusters}
    /\ links' = SoftDeleteLinks(links, cluster.id, now)
    /\ LET link_ids == {l.id : l \in LinksOf(links', cluster.id)}
       IN perf' = SoftDeleteRows(perf, link_ids, now)

delete_cluster(cluster_id) ==
    /\ LET found == {c \in ClusterById(cluster_id) : c.deleted # TRUE}
       IN IF session.user_id = None \/ found = {}
          THEN UNCHANGED <<clusters, links, perf>>
          ELSE SoftDeleteCluster(FirstById(found))
    /\ UNCHANGED <<now, session, domains, tasks, idvars, mwvars>>

trash_cluster(cluster_id) ==
    /\ LET found == {c \in ClusterById(cluster_id) :
                        c.userId = session.user_id /\ c.deleted # TRUE}
       IN IF session.user_id = None \/ found = {}
          THEN UNCHANGED <<clusters, links, perf>>
          ELSE SoftDeleteCluster(FirstById(found))
    /\ UNCHANGED <<now, session, domains, tasks, idvars, mwvars>>

restore_cluster(cluster_id) ==
    /\ LET found == {c \in ClusterById(cluster_id) :
                        c.userId = session.user_id /\ c.deleted = TRUE}
       IN IF session.user_id = None \/ found = {}
          THEN UNCHANGED <<clusters, links, perf>>
          ELSE LET cluster == FirstById(found) IN
               /\ clusters' = {IF c.id = cluster.id
                               THEN [c EXCEPT !.deleted = FALSE, !.deletedAt = NoTime]
                               ELSE c : c \in clusters}
               /\ links' = {IF l.clusterId = cluster.id /\ l.deleted = TRUE
                            THEN [l EXCEPT !.deleted = FALSE, !.deletedAt = NoTime]
                            ELSE l : l \in links}
               /\ LET link_ids == {l.id : l \in LinksOf(links', cluster.id)}
                  IN perf' = {IF r.linkId \in link_ids /\ r.deleted = "true"
                              THEN [r EXCEPT !.deleted = "false", !.deletedAt = NoTime]
                              ELSE r : r \in perf}
    /\ UNCHANGED <<now, session, domains, tasks, idvars, mwvars>>

delete_cluster_permanently(cluster_id) ==
    /\ LET found == {c \in ClusterById(cluster_id) :
                        c.userId = session.user_id /\ c.deleted = TRUE}
       IN IF session.user_id = None \/ found = {}
          THEN UNCHANGED <<clusters, links, perf>>
          ELSE LET cluster == FirstById(found)
                   link_ids == {l.id : l \in LinksOf(links, cluster.id)}
               IN /\ perf' = {r \in perf : r.linkId \notin link_ids}
                  /\ links' = {l \in links : l.clusterId # cluster.id}
                  /\ clusters' = {c \in clusters : c.id # cluster.id}
    /\ UNCHANGED <<now, session, domains, tasks, idvars, mwvars>>

\* ------------------------------------------------ routes/clusters.py: links
LinkById(lid) == {l \in links : l.id = lid}

\* A background task as add_task records it: the link and cluster documents
\* passed by value, the credentials of the request's session, and `after`, the
\* task of the same request that must finish first (0 when there is none).
NewTask(link_doc, cluster, after) ==
    [link |-> [id |-> link_doc.id, url |-> link_doc.url],
     cluster |-> [id |-> cluster.id, domain |-> cluster.domain,
                  deviceFilter |-> cluster.deviceFilter,
                  countryFilter |-> cluster.countryFilter],
     credentials |-> session.credentials,
     after |-> after,
     pc |-> "start",
     codes |-> <<>>,        \* country codes still to query
     all_rows |-> <<>>,     \* rows returned so far
     ops |-> <<>>,          \* bulk_ops not yet applied
     now |-> NoTime,        \* `now` of line 755
     \* What happened, for stating properties (no variable of the code):
     asked |-> <<>>,        \* the country codes queried, None for no filter
     failed |-> FALSE,      \* a query of this task raised
     result |-> None,       \* how the run ended: "complete", "error", "empty"
     prior |-> {}]          \* the tasks that had finished when this one began

\* The loop of add_links_json_action over payload.links. Returns the links
\* collection, the tasks and the next ids.
RECURSIVE InsertLinks(_, _, _, _, _, _, _)
InsertLinks(ls, ts, nl, nt, payload, cluster, prev) ==
    IF payload = <<>> THEN [links |-> ls, tasks |-> ts, nextLink |-> nl, nextTask |-> nt]
    ELSE LET url == Head(payload)
             existing_link == {l \in ls : /\ l.clusterId = cluster.id
                                          /\ l.url = url
                                          /\ l.deleted # TRUE}
         IN IF \/ url = ""
               \/ ~check_domain_consistency(cluster.domain, url)
               \/ existing_link # {}
            THEN InsertLinks(ls, ts, nl, nt, Tail(payload), cluster, prev)
            ELSE LET new_link_doc == [id |-> nl, clusterId |-> cluster.id, url |-> url,
                                      deleted |-> FALSE, deletedAt |-> NoTime,
                                      createdAt |-> now, updatedAt |-> now,
                                      status |-> "processing"]
                 IN InsertLinks(ls \cup {new_link_doc},
                                ts @@ (nt :> NewTask(new_link_doc, cluster, prev)),
                                nl + 1, nt + 1, Tail(payload), cluster, nt)

add_links_json_action(cluster_id, payload) ==
    /\ LET found == {c \in ClusterById(cluster_id) : c.deleted = FALSE}
       IN IF session.user_id = None \/ found = {} \/ payload = <<>>
          THEN UNCHANGED <<links, tasks, nextLink, nextTask>>
          ELSE LET r == InsertLinks(links, tasks, nextLink, nextTask, payload,
                                    FirstById(found), 0)
               IN /\ links' = r.links
                  /\ tasks' = r.tasks
                  /\ nextLink' = r.nextLink
                  /\ nextTask' = r.nextTask
    /\ UNCHANGED <<now, session, clusters, perf, domains, nextCluster, mwvars>>

refresh_link_gsc(cluster_id, link_id) ==
    /\ LET cfound == {c \in ClusterById(cluster_id) : c.deleted = FALSE}
           lfound == {l \in LinkById(link_id) : l.deleted # TRUE}
       IN IF session.user_id = None \/ cfound = {} \/ lfound = {}
          THEN UNCHANGED <<links, tasks, nextTask>>
          ELSE LET cluster == FirstById(cfound)
                   link_doc == FirstById(lfound)
               IN /\ links' = {IF l.id = link_doc.id
                               THEN [l EXCEPT !.status = "processing", !.updatedAt = now]
                               ELSE l : l \in links}
                  /\ tasks' = tasks @@ (nextTask :> NewTask(link_doc, cluster, 0))
                  /\ nextTask' = nextTask + 1
    /\ UNCHANGED <<now, session, clusters, perf, domains, nextCluster, nextLink, mwvars>>

edit_link_action(link_id, url) ==
    /\ IF session.user_id = None \/ LinkById(link_id) = {}
       THEN UNCHANGED links
       ELSE LET link_doc == FirstById(LinkById(link_id))
                cfound == {c \in ClusterById(link_doc.clusterId) : c.deleted = FALSE}
            IN IF cfound = {} \/ url = ""
               THEN UNCHANGED links
               ELSE LET cluster == FirstById(cfound)
                        new_url == url
                        existing_same == {l \in links : /\ l.id # link_doc.id
                                                        /\ l.clusterId = cluster.id
                                                        /\ l.url = new_url
                                                        /\ l.deleted # TRUE}
                    IN IF \/ ~check_domain_consistency(cluster.domain, new_url)
                          \/ existing_same # {}
                       THEN UNCHANGED links
                       ELSE links' = {IF l.id = link_doc.id
                                      THEN [l EXCEPT !.url = new_url, !.updatedAt = now]
                                      ELSE l : l \in links}
    /\ UNCHANGED <<now, session, clusters, perf, domains, tasks, idvars, mwvars>>

\* The two writes shared by delete_link and trash_link.
SoftDeleteLink(link_doc) ==
    /\ links' = {IF l.id = link_doc.id
                 THEN [l EXCEPT !.deleted = TRUE, !.deletedAt = now]
                 ELSE l : l \in links}
    /\ perf' = SoftDeleteRows(perf, {link_doc.id}, now)

delete_link_unguarded(link_id) ==
    /\ LET found == {l \in LinkById(link_id) : l.deleted # TRUE}
       IN IF found = {}
          THEN UNCHANGED <<links, perf>>
          ELSE SoftDeleteLink(FirstById(found))
    /\ UNCHANGED <<now, session, clusters, domains, tasks, idvars, mwvars>>

delete_link(link_id) ==
    /\ LET found == {l \in LinkById(link_id) : l.deleted # TRUE}
       IN IF session.user_id = None \/ found = {}
          THEN UNCHANGED <<links, perf>>
          ELSE SoftDeleteLink(FirstById(found))
    /\ UNCHANGED <<now, session, clusters, domains, tasks, idvars, mwvars>>

\* "Ensure the cluster belongs to this user": the link's cluster, trashed or not
OwnsClusterOf(link_doc) ==
    \E c \in clusters : c.id = link_doc.clusterId /\ c.userId = session.user_id

trash_link(link_id) ==
    /\ LET found == {l \in LinkById(link_id) : l.deleted # TRUE}
       IN IF session.user_id = None \/ found = {} \/ ~OwnsClusterOf(FirstById(found))
          THEN UNCHANGED <<links, perf>>
          ELSE SoftDeleteLink(FirstById(found))
    /\ UNCHANGED <<now, session, clusters, domains, tasks, idvars, mwvars>>

restore_link(link_id) ==
    /\ LET found == {l \in LinkById(link_id) : l.deleted = TRUE}
       IN IF session.user_id = None \/ found = {} \/ ~OwnsClusterOf(FirstById(found))
          THEN UNCHANGED <<links, perf>>
          ELSE LET link_doc == FirstById(found) IN
               /\ links' = {IF l.id = link_doc.id
                            THEN [l EXCEPT !.deleted = FALSE, !.deletedAt = NoTime]
                            ELSE l : l \in links}
               /\ perf' = {IF r.linkId = link_doc.id /\ r.deleted = "true"
                           THEN [r EXCEPT !.deleted = "false", !.deletedAt = NoTime]
                           ELSE r : r \in perf}
    /\ UNCHANGED <<now, session, clusters, domains, tasks, idvars, mwvars>>

delete_link_permanently(link_id) ==
    /\ LET found == {l \in LinkById(link_id) : l.deleted = TRUE}
       IN IF session.user_id = None \/ found = {} \/ ~OwnsClusterOf(FirstById(found))
          THEN UNCHANGED <<links, perf>>
          ELSE LET link_doc == FirstById(found) IN
               /\ perf' = {r \in perf : r.linkId # link_doc.id}
               /\ links' = {l \in links : l.id # link_doc.id}
    /\ UNCHANGED <<now, session, clusters, domains, tasks, idvars, mwvars>>

\* The GET routes of both routers (list_clusters, show_cluster, the forms,
\* link_performance, cluster_performance, view_trash): they read the store and
\* render a template.
view_route ==
    UNCHANGED vars

\* ------------------------------- fetch_3months_gsc_data_for_link (background)
\* A GSC row of a date-dimension query: keys[0], clicks, impressions, position.
Row(d, c, i, p) == [date |-> d, clicks |-> c, impressions |-> i, position |-> p]

\* What one searchanalytics().query(...) may return: one row per date at most.
GscResponses ==
    { <<>>,
      <<Row("d1", 1, 2, 3)>>,
      <<Row("d2", 1, 2, 5)>>,
      <<Row("d1", 2, 4, 1), Row("d2", 0, 0, 0)>> }

\* Python's true division, as an exact fraction in lowest terms.
RECURSIVE GCD(_, _)
GCD(a, b) == IF b = 0 THEN a ELSE GCD(b, a % b)
Div(n, d) == LET g == GCD(n, d) IN
             IF n = 0 THEN [num |-> 0, den |-> 1] ELSE [num |-> n \div g, den |-> d \div g]
Zero == [num |-> 0, den |-> 1]

\* country_codes of line 664; the blank token is what c.strip() empties.
RECURSIVE StripCodes(_)
StripCodes(f) ==
    IF f = <<>> THEN <<>>
    ELSE IF Head(f) = " " \/ Head(f) = "" THEN StripCodes(Tail(f))
         ELSE <<Head(f)>> \o StripCodes(Tail(f))

country_codes(country_filter_str) ==
    IF country_filter_str = <<"ALL">> THEN <<>> ELSE StripCodes(country_filter_str)

\* The queries of lines 730-737: one unfiltered query (None) when there are
\* no country codes, else one per code.
QueriesFor(country_filter_str) ==
    IF country_codes(country_filter_str) = <<>> THEN <<None>>
    ELSE country_codes(country_filter_str)

\* The loop of lines 739-753: `aggregated`, a dict in insertion order, as a
\* sequence of entries.
AddRowUnweighted(aggregated, row) ==
    IF \E k \in 1..Len(aggregated) : aggregated[k].date = row.date
    THEN [k \in 1..Len(aggregated) |->
            IF aggregated[k].date = row.date
            THEN [aggregated[k] EXCEPT
                    !.clicks = @ + row.clicks,
                    !.impressions = @ + row.impressions,
                    !.weighted_position_sum = @ + row.position]
            ELSE aggregated[k]]
    ELSE Append(aggregated,
                [date |-> row.date, clicks |-> row.clicks,
                 impressions |-> row.impressions,
                 weighted_position_sum |-> row.position])

AddRow(aggregated, row) ==
    IF \E k \in 1..Len(aggregated) : aggregated[k].date = row.date
    THEN [k \in 1..Len(aggregated) |->
            IF aggregated[k].date = row.date
            THEN [aggregated[k] EXCEPT
                    !.clicks = @ + row.clicks,
                    !.impressions = @ + row.impressions,
                    !.weighted_position_sum = @ + row.position * row.impressions]
            ELSE aggregated[k]]
    ELSE Append(aggregated,
                [date |-> row.date, clicks |-> row.clicks,
                 impressions |-> row.impressions,
                 weighted_position_sum |-> row.position * row.impressions])

RECURSIVE AggregateFrom(_, _)
AggregateFrom(aggregated, all_rows) ==
    IF all_rows = <<>> THEN aggregated
    ELSE AggregateFrom(AddRow(aggregated, Head(all_rows)), Tail(all_rows))

Aggregate(all_rows) == AggregateFrom(<<>>, all_rows)

\* The $set document of one UpdateOne of lines 757-777.
BulkOp(data) ==
    [date |-> data.date,
     clicks |-> data.clicks,
     impressions |-> data.impressions,
     ctr |-> IF data.impressions # 0 THEN Div(data.clicks, data.impressions) ELSE Zero,
     position |-> IF data.impressions # 0
                  THEN Div(data.weighted_position_sum, data.impressions) ELSE Zero]

BulkOps(all_rows) ==
    LET aggregated == Aggregate(all_rows)
    IN [k \in 1..Len(aggregated) |-> BulkOp(aggregated[k])]

\* UpdateOne({linkId, date}, {$set: ..., $setOnInsert: {createdAt}}, upsert=True)
\* as one atomic operation of the store. `by` is not a field of the document:
\* it records the task whose operation wrote the row's totals last.
UpsertRowInserting(rows, link_id, op, t, by) ==
    rows \cup {[linkId |-> link_id, date |-> op.date,
                clicks |-> op.clicks, impressions |-> op.impressions,
                ctr |-> op.ctr, position |-> op.position,
                updatedAt |-> t, createdAt |-> t,
                deleted |-> "absent", deletedAt |-> NoTime,
                by |-> by]}

UpsertRowReplacing(rows, link_id, op, t, by) ==
    {r \in rows : ~(r.linkId = link_id /\ r.date = op.date)} \cup
        {[linkId |-> link_id, date |-> op.date,
          clicks |-> op.clicks, impressions |-> op.impressions,
          ctr |-> op.ctr, position |-> op.position,
          updatedAt |-> t, createdAt |-> t,
          deleted |-> "absent", deletedAt |-> NoTime,
          by |-> by]}

UpsertRow(rows, link_id, op, t, by) ==
    LET matching == {r \in rows : r.linkId = link_id /\ r.date = op.date}
    IN IF matching # {}
       THEN LET hit == CHOOSE r \in matching : TRUE
            IN (rows \ {hit}) \cup
               {[hit EXCEPT !.clicks = op.clicks, !.impressions = op.impressions,
                            !.ctr = op.ctr, !.position = op.position,
                            !.updatedAt = t, !.by = by]}
       ELSE rows \cup {[linkId |-> link_id, date |-> op.date,
                        clicks |-> op.clicks, impressions |-> op.impressions,
                        ctr |-> op.ctr, position |-> op.position,
                        updatedAt |-> t, createdAt |-> t,
                        deleted |-> "absent", deletedAt |-> NoTime,
                        by |-> by]}

\* links.update_one({_id}, {$set: {status, updatedAt}})
SetStatus(ls, link_id, status, t) ==
    {IF l.id = link_id THEN [l EXCEPT !.status = status, !.updatedAt = t] ELSE l : l \in ls}

FinishedTasks == {s \in DOMAIN tasks : tasks[s].pc = "done"}

Runnable(t) ==
    /\ t \in DOMAIN tasks
    /\ tasks[t].after # 0 => tasks[tasks[t].after].pc = "done"

\* Lines 648-691: the credential checks and the construction of the client.
\* build_ok = FALSE is Credentials(...) or build(...) raising.
FetchStart(t, build_ok) ==
    /\ Runnable(t)
    /\ tasks[t].pc = "start"
    /\ IF tasks[t].credentials # "full" \/ ~build_ok
       THEN /\ links' = SetStatus(links, tasks[t].link.id, "error", now)
            /\ tasks' = [tasks EXCEPT ![t].pc = "done", ![t].result = "error",
                                      ![t].prior = FinishedTasks]
       ELSE /\ tasks' = [tasks EXCEPT ![t].pc = "query",
                                      ![t].codes = QueriesFor(tasks[t].cluster.countryFilter),
                                      ![t].prior = FinishedTasks]
            /\ UNCHANGED links
    /\ UNCHANGED <<now, session, clusters, perf, domains, idvars, mwvars>>

\* After the last query: lines 739-778 build bulk_ops; with none, return.
AfterQueries(task, all_rows, failed) ==
    LET bulk_ops == BulkOps(all_rows)
    IN [task EXCEPT !.codes = <<>>, !.all_rows = all_rows, !.failed = failed,
                    !.ops = bulk_ops, !.now = now,
                    !.result = IF bulk_ops = <<>> THEN "empty" ELSE @,
                    !.pc = IF bulk_ops = <<>> THEN "done" ELSE "write"]

\* query_for_country for the next code: the call returns rows, or raises and
\* the function returns [].
FetchQuery(t, response, raised) ==
    /\ Runnable(t)
    /\ tasks[t].pc = "query"
    /\ LET rows == IF raised THEN <<>> ELSE response
           all_rows == tasks[t].all_rows \o rows
           failed == tasks[t].failed \/ raised
           rest == Tail(tasks[t].codes)
           asked == Append(tasks[t].asked, Head(tasks[t].codes))
       IN tasks' = [tasks EXCEPT ![t] =
                      IF rest = <<>>
                      THEN AfterQueries([@ EXCEPT !.asked = asked], all_rows, failed)
                      ELSE [@ EXCEPT !.codes = rest, !.all_rows = all_rows,
                                     !.asked = asked, !.failed = failed]]
    /\ UNCHANGED <<now, session, dbvars, idvars, mwvars>>

\* One UpdateOne of bulk_write.
FetchWrite(t) ==
    /\ Runnable(t)
    /\ tasks[t].pc = "write"
    /\ perf' = UpsertRow(perf, tasks[t].link.id, Head(tasks[t].ops), tasks[t].now, t)
    /\ tasks' = [tasks EXCEPT ![t].ops = Tail(@),
                              ![t].pc = IF Tail(tasks[t].ops) = <<>> THEN "written" ELSE "write"]
    /\ UNCHANGED <<now, session, clusters, links, domains, idvars, mwvars>>

\* bulk_write, or the status update after it, raises (lines 789-795): the
\* operations not yet applied are lost.
FetchWriteFails(t) ==
    /\ Runnable(t)
    /\ tasks[t].pc \in {"write", "written"}
    /\ links' = SetStatus(links, tasks[t].link.id, "error", now)
    /\ tasks' = [tasks EXCEPT ![t].pc = "done", ![t].result = "error"]
    /\ UNCHANGED <<now, session, clusters, perf, domains, idvars, mwvars>>

\* Lines 785-788: the status update after a bulk_write that succeeded.
FetchComplete(t) ==
    /\ Runnable(t)
    /\ tasks[t].pc = "written"
    /\ links' = SetStatus(links, tasks[t].link.id, "complete", now)
    /\ tasks' = [tasks EXCEPT ![t].pc = "done", ![t].result = "complete"]
    /\ UNCHANGED <<now, session, clusters, perf, domains, idvars, mwvars>>

\* The clock advances, up to max.
TickTo(max) ==
    /\ now < max
    /\ now' = now + 1
    /\ UNCHANGED <<session, dbvars, tasks, idvars, mwvars>>

\* ------------------------------------------------------- mongo_session.py
SESSION_LIFETIME_DAYS == 7

\* request.cookies.get(SESSION_COOKIE_NAME) of a request without the cookie
NoCookie == 0
\* a session id that uuid4 never generated
ForgedSid == MaxSids + 1

ExpiredNever(doc, t) == FALSE

\* line 55: the document's expiresAt lies before utcnow()
Expired(doc, t) == doc.expiresAt < t

\* The calls of flash and get_flashed_messages made so far, by all requests
CallsSoFar == UNION {{<<q, k>> : k \in 1..Len(reqs[q].log)} : q \in DOMAIN reqs}

\* A request enters dispatch with the cookie it carries (line 96).
dispatch(cookie) ==
    /\ Len(reqs) < MaxReqs
    /\ reqs' = Append(reqs, [cookie |-> cookie,
                             pc |-> IF cookie = NoCookie THEN "create" ELSE "find",
                             session_id |-> cookie,
                             session |-> EmptySession,
                             set_cookie |-> NoCookie,
                             \* What happened (no variable of the code):
                             stale |-> FALSE,        \* get_session_doc returned None
                             expired |-> FALSE,      \* ... for a document that had expired
                             found |-> EmptySession, \* the data of the document found
                             \* the requests that had finished when this one came
                             prior |-> {q \in DOMAIN reqs : reqs[q].pc = "done"},
                             saved_at |-> NoTime,    \* the day of save_session_doc
                             \* the calls of flash and get_flashed_messages on
                             \* request.state.session, and how many calls had been
                             \* made when this request came
                             log |-> <<>>,
                             came |-> Cardinality(CallsSoFar),
                             \* the handler that ran, and the requests that had
                             \* finished when it ran
                             handler |-> None,
                             before |-> {}])
    /\ UNCHANGED <<now, session, dbvars, tasks, idvars, store, nextSid>>

\* get_session_doc up to line 55: find_one and the expiry test.
get_session_doc(r) ==
    /\ r \in DOMAIN reqs
    /\ reqs[r].pc = "find"
    /\ LET session_id == reqs[r].cookie IN
       IF session_id \notin DOMAIN store
       THEN reqs' = [reqs EXCEPT ![r].pc = "create", ![r].stale = TRUE]
       ELSE LET doc == store[session_id] IN
            IF Expired(doc, now)
            THEN reqs' = [reqs EXCEPT ![r].pc = "delete", ![r].stale = TRUE,
                                      ![r].expired = TRUE, ![r].found = doc.data]
            ELSE reqs' = [reqs EXCEPT ![r].pc = "handle", ![r].session = doc.data,
                                      ![r].found = doc.data]
    /\ UNCHANGED <<now, session, dbvars, tasks, idvars, store, nextSid>>

\* get_session_doc, lines 56-62: delete_one of the expired document.
delete_expired(r) ==
    /\ r \in DOMAIN reqs
    /\ reqs[r].pc = "delete"
    /\ store' = [k \in DOMAIN store \ {reqs[r].cookie} |-> store[k]]
    /\ reqs' = [reqs EXCEPT ![r].pc = "create"]
    /\ UNCHANGED <<now, session, dbvars, tasks, idvars, nextSid>>

\* Lines 100-103 and 111-114: a uuid4 and create_session_doc for it.
create_session_doc(r) ==
    /\ r \in DOMAIN reqs
    /\ reqs[r].pc = "create"
    /\ nextSid <= MaxSids
    /\ store' = (nextSid :> [data |-> EmptySession,
                             expiresAt |-> now + SESSION_LIFETIME_DAYS]) @@ store
    /\ reqs' = [reqs EXCEPT ![r].pc = "handle", ![r].session_id = nextSid,
                            ![r].session = EmptySession]
    /\ nextSid' = nextSid + 1
    /\ UNCHANGED <<now, session, dbvars, tasks, idvars>>

\* call_next: the handler runs on request.state.session. It reads it, or logs
\* the user in (oauth2callback), or logs out (session.clear()).
HandlerEffect(s, h) ==
    CASE h = "view" -> s
      [] h = "login" -> AfterCallback(s, "u1", "full", TRUE)
      [] h = "logout" -> EmptySession

call_next(r, h) ==
    /\ r \in DOMAIN reqs
    /\ reqs[r].pc = "handle"
    /\ reqs' = [reqs EXCEPT ![r].pc = "save", ![r].session = HandlerEffect(@, h),
                            ![r].handler = h,
                            ![r].before = {q \in DOMAIN reqs : reqs[q].pc = "done"}]
    /\ UNCHANGED <<now, session, dbvars, tasks, idvars, store, nextSid>>

save_session_doc_keeping_expiry(r) ==
    /\ r \in DOMAIN reqs
    /\ reqs[r].pc = "save"
    /\ store' = (reqs[r].session_id :>
                    [data |-> reqs[r].session,
                     expiresAt |-> IF reqs[r].session_id \in DOMAIN store
                                   THEN store[reqs[r].session_id].expiresAt
                                   ELSE now + SESSION_LIFETIME_DAYS])
                @@ store
    /\ reqs' = [reqs EXCEPT ![r].pc = "done", ![r].saved_at = now,
                            ![r].set_cookie = IF reqs[r].cookie # reqs[r].session_id
                                              THEN reqs[r].session_id ELSE NoCookie]
    /\ UNCHANGED <<now, session, dbvars, tasks, idvars, nextSid>>

\* Lines 129-147: save_session_doc (an upsert) and the cookie of the response.
save_session_doc(r) ==
    /\ r \in DOMAIN reqs
    /\ reqs[r].pc = "save"
    /\ store' = (reqs[r].session_id :> [data |-> reqs[r].session,
                                        expiresAt |-> now + SESSION_LIFETIME_DAYS])
                @@ store
    /\ reqs' = [reqs EXCEPT ![r].pc = "done", ![r].saved_at = now,
                            ![r].set_cookie = IF reqs[r].cookie # reqs[r].session_id
                                              THEN reqs[r].session_id ELSE NoCookie]
    /\ UNCHANGED <<now, session, dbvars, tasks, idvars, nextSid>>

\* ------------------------------------------------------- routes/flash.py
FLASH_SESSION_KEY == "flash_messages"

\* session.get(FLASH_SESSION_KEY, [])
FlashMessages(s) == IF FLASH_SESSION_KEY \in DOMAIN s THEN s[FLASH_SESSION_KEY] ELSE <<>>

\* flash: the session after the call
flash(s, message, category) ==
    (FLASH_SESSION_KEY :> Append(FlashMessages(s), [message |-> message,
                                                     category |-> category])) @@ s

\* get_flashed_messages: the session after the call and the list returned
get_flashed_messages(s) ==
    [session |-> (FLASH_SESSION_KEY :> <<>>) @@ s, messages |-> FlashMessages(s)]

\* One call on request.state.session of request r: its place among all calls
\* and whether dispatch had saved the session of r before it.
Called(r, op, items) ==
    Append(reqs[r].log, [op |-> op, items |-> items, at |-> Cardinality(CallsSoFar) + 1,
                         saved |-> reqs[r].pc = "done"])

\* The handler of request r calls flash (for instance refresh_link_gsc, line 829).
HandlerFlashes(r, message, category, max_calls) ==
    /\ r \in DOMAIN reqs
    /\ reqs[r].pc = "handle"
    /\ Cardinality(CallsSoFar) < max_calls
    /\ reqs' = [reqs EXCEPT ![r].session = flash(@, message, category),
                            ![r].log = Called(r, "flash", <<[message |-> message,
                                                             category |-> category]>>)]
    /\ UNCHANGED <<now, session, dbvars, tasks, idvars, store, nextSid>>

\* The handler of request r renders a page with get_flashed_messages(request).
HandlerGets(r, max_calls) ==
    /\ r \in DOMAIN reqs
    /\ reqs[r].pc = "handle"
    /\ Cardinality(CallsSoFar) < max_calls
    /\ LET got == get_flashed_messages(reqs[r].session) IN
       reqs' = [reqs EXCEPT ![r].session = got.session,
                            ![r].log = Called(r, "get", got.messages)]
    /\ UNCHANGED <<now, session, dbvars, tasks, idvars, store, nextSid>>

\* The background task that the handler of request r added (add_task, lines
\* 629 and 827) runs after the response and calls flash(request, ...) on the
\* request's session dict (lines 650-791), which dispatch has saved already.
BackgroundFlashes(r, message, category, max_calls) ==
    /\ r \in DOMAIN reqs
    /\ reqs[r].pc = "done"
    /\ Cardinality(CallsSoFar) < max_calls
    /\ reqs' = [reqs EXCEPT ![r].session = flash(@, message, category),
                            ![r].log = Called(r, "flash", <<[message |-> message,
                                                             category |-> category]>>)]
    /\ UNCHANGED <<now, session, dbvars, tasks, idvars, store, nextSid>>

\* -------------------------------------------------------------- the system
ClusterIds == 1..MaxClusters
LinkIds == 1..MaxLinks
TaskIds == 1..MaxTasks

Init ==
    /\ now = 1
    /\ session = EmptySession
    /\ clusters = {}
    /\ links = {}
    /\ perf = {}
    /\ domains = {}
    /\ tasks = <<>>
    /\ nextCluster = 1
    /\ nextLink = 1
    /\ nextTask = 1
    /\ store = <<>>
    /\ reqs = <<>>
    /\ nextSid = 1

\* The requests and steps of the system, over the inputs P; inserts are enabled
\* while fresh ids remain below the bounds.
OAuthCallbackIn(U, Kinds, Oks) ==
    \E u \in U, kind \in Kinds, ok \in Oks : oauth2callback(u, kind, ok)
SitesListIn(S) == \E gsc \in SUBSET S, ok \in BOOLEAN : sites_list(gsc, ok)
SelectSiteIn(S) == \E s \in S : select_site(s)
NewClusterIn(P) ==
    \E payload \in P : /\ nextCluster + Len(payload) - 1 <= MaxClusters
                       /\ new_cluster_json_action(payload)
EditClusterIn(N, D, F) ==
    \E c \in ClusterIds, n \in N, d \in D, f \in F : edit_cluster_action(c, n, d, f)
AddLinksIn(P, max_links, max_tasks) ==
    \E c \in ClusterIds, payload \in P :
        /\ nextLink + Len(payload) - 1 <= max_links
        /\ nextTask + Len(payload) - 1 <= max_tasks
        /\ add_links_json_action(c, payload)
RefreshLinkTo(max_tasks) ==
    \E c \in ClusterIds, l \in LinkIds : nextTask <= max_tasks /\ refresh_link_gsc(c, l)
EditLinkIn(U) == \E l \in LinkIds, u \in U : edit_link_action(l, u)
FetchQueryIn(R) ==
    \E t \in TaskIds, response \in R, raised \in BOOLEAN : FetchQuery(t, response, raised)

\* ---------------------------------------------------- specification Spec
\* The store under the requests of a logged-in browser session and the
\* background fetches they schedule. The clusters keep the default filters
\* (they vary in SpecFetch) and the clock stands still.
StoreSite == "sc-domain:a.c"
StoreUrls == {"https://a.c/x", "https://a.c/y", ""}
StoreClusterPayloads ==
    {<<[clusterName |-> n, deviceFilter |-> "", countryFilter |-> <<>>]>> : n \in {"a", ""}}
StoreLinkPayloads ==
    {<<>>} \cup {<<u>> : u \in StoreUrls} \cup {<<"https://a.c/x", "https://a.c/y">>}
StoreResponses == {<<Row("d1", 1, 2, 3)>>}

OAuthCallback == OAuthCallbackIn({"u1"}, {"full"}, {TRUE})
SelectSite == SelectSiteIn({StoreSite})
NewCluster == NewClusterIn(StoreClusterPayloads)
EditCluster == EditClusterIn({"a", "b", ""}, {""}, {<<" ">>})
DeleteCluster == \E c \in ClusterIds : delete_cluster(c)
TrashCluster == \E c \in ClusterIds : trash_cluster(c)
RestoreCluster == \E c \in ClusterIds : restore_cluster(c)
DeleteClusterPermanently == \E c \in ClusterIds : delete_cluster_permanently(c)
AddLinks == AddLinksIn(StoreLinkPayloads, MaxLinks, MaxTasks)
RefreshLink == RefreshLinkTo(MaxTasks)
EditLink == EditLinkIn(StoreUrls)
DeleteLink == \E l \in LinkIds : delete_link(l)
TrashLink == \E l \in LinkIds : trash_link(l)
RestoreLink == \E l \in LinkIds : restore_link(l)
DeleteLinkPermanently == \E l \in LinkIds : delete_link_permanently(l)

Start == \E t \in TaskIds, ok \in BOOLEAN : FetchStart(t, ok)
Query == FetchQueryIn(StoreResponses)
Write == \E t \in TaskIds : FetchWrite(t)
WriteFails == \E t \in TaskIds : FetchWriteFails(t)
Complete == \E t \in TaskIds : FetchComplete(t)

Next ==
    \/ OAuthCallback \/ SelectSite
    \/ NewCluster \/ EditCluster \/ DeleteCluster \/ TrashCluster \/ RestoreCluster
    \/ DeleteClusterPermanently \/ AddLinks \/ RefreshLink \/ EditLink \/ DeleteLink
    \/ TrashLink \/ RestoreLink \/ DeleteLinkPermanently
    \/ Start \/ Query \/ Write \/ WriteFails \/ Complete

Spec == Init /\ [][Next]_vars

\* ------------------------------------------------- properties of the store
RowsOfCluster(rows, ls, cid) ==
    {r \in rows : \E l \in LinksOf(ls, cid) : r.linkId = l.id}

\* A step that marks a cluster deleted leaves its links and their rows deleted.
CascadeStep ==
    \A c \in clusters :
        (c.deleted = FALSE /\ \E d \in clusters' : d.id = c.id /\ d.deleted = TRUE)
        => /\ \A l \in LinksOf(links', c.id) : l.deleted = TRUE
           /\ \A r \in RowsOfCluster(perf', links', c.id) : r.deleted = "true"

\* C1: in the step in which trash_cluster or delete_cluster marks a cluster
\* deleted, the cluster, every link of it and every link_performance row of
\* those links are marked deleted in the resulting store.
C1_SoftDeleteCascades == [][CascadeStep]_vars

\* A trashed cluster with a trashed link and a trashed row of that link.
C1_Witness ==
    \E c \in clusters, l \in links, r \in perf :
        /\ c.deleted = TRUE /\ c.deletedAt = now
        /\ l.clusterId = c.id /\ l.deleted = TRUE
        /\ r.linkId = l.id /\ r.deleted = "true"

\* Document e is document d up to deleted and deletedAt.
SameButDeleted(d, e) == [e EXCEPT !.deleted = d.deleted, !.deletedAt = d.deletedAt] = d

\* Every document is kept, with no field changed but deleted and deletedAt.
SoftDeleteFrame ==
    /\ \A c \in clusters : \E d \in clusters' : d.id = c.id /\ SameButDeleted(c, d)
    /\ \A l \in links : \E m \in links' : m.id = l.id /\ SameButDeleted(l, m)
    /\ \A r \in perf : \E q \in perf' :
          q.linkId = r.linkId /\ q.date = r.date /\ SameButDeleted(r, q)
    /\ Cardinality(clusters') = Cardinality(clusters)
    /\ Cardinality(links') = Cardinality(links)
    /\ Cardinality(perf') = Cardinality(perf)
    /\ domains' = domains

\* C6: a step of trash_cluster, delete_cluster, trash_link or delete_link
\* removes no document of any collection and changes no field other than
\* deleted and deletedAt.
C6_SoftDeleteOnlyMarks ==
    [][(TrashCluster \/ DeleteCluster \/ TrashLink \/ DeleteLink) => SoftDeleteFrame]_vars

\* A link trashed on its own, with a row, in a cluster that is not trashed.
C6_Witness ==
    \E c \in clusters, l \in links, r \in perf :
        /\ c.deleted = FALSE
        /\ l.clusterId = c.id /\ l.deleted = TRUE /\ l.status = "complete"
        /\ r.linkId = l.id /\ r.deleted = "true" /\ r.clicks = 1

\* ------------------------------------------------ specification SpecFetch
\* The background fetch on one link: the state after a logged-in user created
\* a cluster with some device and country filter and added one link to it,
\* then refreshes of the link, edits of the cluster's filters, the steps of
\* the fetch tasks under every GSC response, and the clock.
FetchUrl == "https://a.c/x"
FetchFilters == {<<"ALL">>, <<"usa", "can">>, <<" ">>}

InitFetch ==
    /\ now = 1
    /\ session = [user_id |-> "u1", selected_site |-> StoreSite, credentials |-> "full"]
    /\ \E f \in FetchFilters :
          clusters = InsertClusters({}, 1, <<[clusterName |-> "a", deviceFilter |-> "",
                                              countryFilter |-> f]>>,
                                    "u1", StoreSite, now).clusters
    /\ LET r == InsertLinks({}, <<>>, 1, 1, <<FetchUrl>>, FirstById(clusters), 0)
       IN /\ links = r.links
          /\ tasks = r.tasks
          /\ nextLink = r.nextLink
          /\ nextTask = r.nextTask
    /\ nextCluster = 2
    /\ perf = {}
    /\ domains = {[userId |-> "u1", siteUrl |-> StoreSite, active |-> TRUE,
                   permissionLevel |-> None, createdAt |-> now, updatedAt |-> now]}
    /\ store = <<>>
    /\ reqs = <<>>
    /\ nextSid = 1

EditFilters == EditClusterIn({"a"}, {"MOBILE"}, {<<"usa">>})
QueryGsc == FetchQueryIn(GscResponses)
Tick == TickTo(MaxNow)

NextFetch ==
    \/ RefreshLink \/ EditFilters
    \/ Start \/ QueryGsc \/ Write \/ WriteFails \/ Complete
    \/ Tick

SpecFetch == InitFetch /\ [][NextFetch]_vars

\* --------------------------------------------- properties of the fetch task
LinkStatus(link_id) == {l.status : l \in {m \in links : m.id = link_id}}

\* A fetch that finishes after a query of it raised leaves the status 'error'.
QueryErrorStep ==
    \A t \in DOMAIN tasks :
        (tasks[t].pc # "done" /\ tasks'[t].pc = "done" /\ tasks'[t].failed)
        => \A l \in links' : l.id = tasks[t].link.id => l.status = "error"

\* C2: in the step in which a fetch finishes, if one of its GSC queries
\* raised, the link's status is 'error'.
C2_QueryErrorMarksLink == [][QueryErrorStep]_vars

\* A finished fetch all of whose queries raised, on a link left 'processing'.
C2_Witness ==
    \E t \in DOMAIN tasks :
        /\ tasks[t].pc = "done" /\ tasks[t].failed /\ tasks[t].all_rows = <<>>
        /\ LinkStatus(tasks[t].link.id) = {"processing"}
        /\ DOMAIN tasks = {t}

\* bulk_write of a whole run on a collection, in the order of bulk_ops
RECURSIVE ApplyOps(_, _, _, _, _)
ApplyOps(rows, link_id, ops, t, by) ==
    IF ops = <<>> THEN rows
    ELSE ApplyOps(UpsertRow(rows, link_id, Head(ops), t, by), link_id, Tail(ops), t, by)

\* A run of task t alone on the collection rows
RunOn(rows, t) ==
    ApplyOps(rows, tasks[t].link.id, BulkOps(tasks[t].all_rows), tasks[t].now, t)

\* A row without updatedAt (and without the record of who wrote it)
Stored(r) ==
    [linkId |-> r.linkId, date |-> r.date, clicks |-> r.clicks,
     impressions |-> r.impressions, ctr |-> r.ctr, position |-> r.position,
     createdAt |-> r.createdAt, deleted |-> r.deleted, deletedAt |-> r.deletedAt]

\* The totals of a row
Totals(r) ==
    [linkId |-> r.linkId, date |-> r.date, clicks |-> r.clicks,
     impressions |-> r.impressions, ctr |-> r.ctr, position |-> r.position]

NeverWrote(s) == tasks[s].now = NoTime \/ tasks[s].result = "empty"

\* t1 ran to completion, then t2 ran to completion, with the same GSC rows,
\* for the same link, and no other task wrote.
RanTwice(t1, t2) ==
    /\ t1 # t2
    /\ tasks[t1].link.id = tasks[t2].link.id
    /\ tasks[t1].result = "complete"
    /\ tasks[t2].result = "complete"
    /\ t1 \in tasks[t2].prior
    /\ tasks[t1].all_rows = tasks[t2].all_rows
    /\ \A s \in DOMAIN tasks \ {t1, t2} : NeverWrote(s)

\* C3: after two fetches of a link in sequence with the same GSC rows, the
\* collection holds the rows of the first run alone, with the same values and
\* the same createdAt (updatedAt aside).
C3_RefetchIdempotent ==
    \A t1, t2 \in DOMAIN tasks :
        RanTwice(t1, t2) => {Stored(r) : r \in perf} = {Stored(r) : r \in RunOn({}, t1)}

\* Two runs in sequence at different times that stored rows.
C3_Witness ==
    \E t1, t2 \in DOMAIN tasks :
        /\ RanTwice(t1, t2)
        /\ tasks[t1].now < tasks[t2].now
        /\ \E r \in perf : r.createdAt = tasks[t1].now /\ r.updatedAt = tasks[t2].now

\* The sums of one field over the GSC rows of one date
RowValue(row, f) ==
    CASE f = "clicks" -> row.clicks
      [] f = "impressions" -> row.impressions
      [] f = "weighted" -> row.position * row.impressions

RECURSIVE SumOn(_, _, _)
SumOn(rows, d, f) ==
    IF rows = <<>> THEN 0
    ELSE (IF Head(rows).date = d THEN RowValue(Head(rows), f) ELSE 0)
         + SumOn(Tail(rows), d, f)

\* C4: every stored row holds, for its date, the sums of clicks and of
\* impressions over all GSC rows its fetch got, position = sum(position x
\* impressions) / sum(impressions) and ctr = sum(clicks) / sum(impressions),
\* both 0 when the impressions are 0; a completed fetch stored a row for every
\* date it got; and the rows come from one unfiltered query when the country
\* filter is ALL, from one query per country code when it names codes.
C4_StoredTotals ==
    /\ \A r \in perf :
          LET rows == tasks[r.by].all_rows
              clicks == SumOn(rows, r.date, "clicks")
              impressions == SumOn(rows, r.date, "impressions")
          IN /\ r.clicks = clicks
             /\ r.impressions = impressions
             /\ r.position = IF impressions = 0 THEN Zero
                             ELSE Div(SumOn(rows, r.date, "weighted"), impressions)
             /\ r.ctr = IF impressions = 0 THEN Zero ELSE Div(clicks, impressions)
    /\ \A t \in DOMAIN tasks :
          tasks[t].result = "complete"
          => \A k \in 1..Len(tasks[t].all_rows) :
                \E r \in perf : /\ r.linkId = tasks[t].link.id
                                /\ r.date = tasks[t].all_rows[k].date
    /\ \A t \in DOMAIN tasks :
          tasks[t].pc \in {"write", "written"} \/ tasks[t].result \in {"complete", "empty"}
          => LET f == tasks[t].cluster.countryFilter
             IN /\ f = <<"ALL">> => tasks[t].asked = <<None>>
                /\ (f # <<"ALL">> /\ StripCodes(f) # <<>>) => tasks[t].asked = f

\* A row summed over the rows of two country queries, and a row without
\* impressions.
C4_Witness ==
    \E r, z \in perf :
        /\ tasks[r.by].asked = <<"usa", "can">>
        /\ r.clicks = 3 /\ r.impressions = 6
        /\ r.position = [num |-> 5, den |-> 3]
        /\ r.ctr = [num |-> 1, den |-> 2]
        /\ z.impressions = 0 /\ z.position = Zero /\ z.ctr = Zero

\* C5: when two fetches of one link have both completed, the rows and the
\* status are those of running the two one after the other in some order.
C5_ConcurrentFetchSerializable ==
    \A t1, t2 \in DOMAIN tasks :
        ( /\ t1 < t2
          /\ DOMAIN tasks = {t1, t2}
          /\ tasks[t1].link.id = tasks[t2].link.id
          /\ tasks[t1].result = "complete"
          /\ tasks[t2].result = "complete" )
        => /\ LinkStatus(tasks[t1].link.id) = {"complete"}
           /\ \/ {Totals(r) : r \in perf} = {Totals(r) : r \in RunOn(RunOn({}, t1), t2)}
              \/ {Totals(r) : r \in perf} = {Totals(r) : r \in RunOn(RunOn({}, t2), t1)}

\* Two completed fetches that left one date with the totals of the first and
\* another date with the totals of the second, where their totals differ.
C5_Witness ==
    \E t1, t2 \in DOMAIN tasks :
        /\ t1 # t2
        /\ tasks[t1].result = "complete" /\ tasks[t2].result = "complete"
        /\ \E r1, r2 \in perf :
              /\ r1.by = t1 /\ r2.by = t2
              /\ Totals(r1) \notin {Totals(r) : r \in RunOn({}, t2)}
              /\ Totals(r2) \notin {Totals(r) : r \in RunOn({}, t1)}
              /\ \E q \in RunOn({}, t2) : q.date = r1.date
              /\ \E q \in RunOn({}, t1) : q.date = r2.date

\* C9: every row that is not deleted, of a link of a cluster, holds totals
\* fetched with the cluster's current deviceFilter and countryFilter.
C9_RowsFollowFilters ==
    \A r \in perf, l \in links, c \in clusters :
        (r.deleted # "true" /\ l.id = r.linkId /\ c.id = l.clusterId)
        => /\ tasks[r.by].cluster.deviceFilter = c.deviceFilter
           /\ tasks[r.by].cluster.countryFilter = c.countryFilter

\* A row fetched for all devices and countries in a cluster since edited to
\* MOBILE and usa, with no fetch pending.
C9_Witness ==
    \E r \in perf, l \in links, c \in clusters :
        /\ l.id = r.linkId /\ c.id = l.clusterId /\ l.status = "complete"
        /\ tasks[r.by].cluster.deviceFilter = "ALL"
        /\ tasks[r.by].cluster.countryFilter = <<"ALL">>
        /\ c.deviceFilter = "MOBILE" /\ c.countryFilter = <<"usa">>
        /\ \A t \in DOMAIN tasks : tasks[t].pc = "done"

\* ----------------------------------------------- specification SpecRoutes
\* Every route of the clusters and dashboard routers under sessions that log
\* in (with or without a user_id), log out and go on anonymously.
GscSites == {"sc-domain:a.c"}
RouteLinkPayloads == {<<"https://a.c/x">>}

Login == OAuthCallbackIn({"u1"}, {"full"}, BOOLEAN)
Logout == logout
SitesList == SitesListIn(GscSites)
ViewRoute == view_route
AddLink == AddLinksIn(RouteLinkPayloads, MaxRouteLinks, MaxRouteTasks)
RefreshLinkOnce == RefreshLinkTo(MaxRouteTasks)
EditLinkUrl == EditLinkIn({"https://a.c/y"})

RouteRequest ==
    \/ SitesList \/ SelectSite \/ ViewRoute
    \/ NewCluster \/ EditCluster \/ DeleteCluster \/ TrashCluster \/ RestoreCluster
    \/ DeleteClusterPermanently \/ AddLink \/ RefreshLinkOnce \/ EditLinkUrl \/ DeleteLink
    \/ TrashLink \/ RestoreLink \/ DeleteLinkPermanently

NextRoutes ==
    \/ Login \/ Logout
    \/ RouteRequest
    \/ Start \/ Query \/ Write \/ WriteFails \/ Complete

SpecRoutes == Init /\ [][NextRoutes]_vars

\* C7: a request to a route of the clusters or dashboard router whose session
\* has no user_id leaves clusters, links, link_performance and
\* domain_properties as they are and schedules no fetch.
C7_AnonymousChangesNothing ==
    [][(session.user_id = None /\ RouteRequest) => (dbvars' = dbvars /\ tasks' = tasks)]_vars

\* An anonymous session that selected a site, after a logout, over a store
\* that holds rows.
C7_Witness ==
    /\ session.user_id = None
    /\ session.credentials = None
    /\ session.selected_site # None
    /\ perf # {}
    /\ \E l \in links : l.deleted = FALSE

\* ------------------------------------------------ specification SpecSites
\* The dashboard router under sessions of two users: logins (with full or
\* partial credentials, with or without a user_id), logouts, syncs of the
\* properties Search Console reports, and selections of any posted site_url.
PostedSites == {"sc-domain:a.c", "https://a.c/", ""}

LoginAny == OAuthCallbackIn(Users, {"full", "partial"}, BOOLEAN)
SelectAnySite == SelectSiteIn(PostedSites)

NextSites ==
    \/ LoginAny \/ Logout
    \/ SitesList \/ SelectAnySite
    \/ Tick

SpecSites == Init /\ [][NextSites]_vars

\* The properties sites_list synced as verified for user u
Verified(ds, u) ==
    {d.siteUrl : d \in {e \in ds : e.userId = u /\ e.permissionLevel = "siteOwner"}}

\* A selection, or a new active document, is of a verified property.
SelectStep ==
    /\ ( /\ session.user_id # None
         /\ session'.selected_site # session.selected_site
         /\ session'.selected_site # None )
       => session'.selected_site \in Verified(domains, session.user_id)
    /\ \A d \in domains' \ domains :
          (d.active /\ \A e \in domains : ~(e.userId = d.userId /\ e.siteUrl = d.siteUrl))
          => d.siteUrl \in Verified(domains', d.userId)

\* C8: a step that stores a selected_site in the session of a logged-in user,
\* or that adds an active domain_properties document, does it for a property
\* that sites_list synced as verified for the user.
C8_SelectsVerifiedOnly == [][SelectStep]_vars

\* A logged-in session whose selected site has an active document that no
\* sync verified.
C8_Witness ==
    /\ session.user_id # None
    /\ session.selected_site = "https://a.c/"
    /\ \E d \in domains : /\ d.userId = session.user_id
                          /\ d.siteUrl = session.selected_site
                          /\ d.active /\ d.permissionLevel = None
    /\ Verified(domains, session.user_id) = {"sc-domain:a.c"}

\* ---------------------------------------------- specification SpecSession
\* Requests through MongoSessionMiddleware: each carries no cookie, a session
\* id an earlier response set, or a forged id; the days pass.
IssuedSids == {reqs[r].set_cookie : r \in {q \in DOMAIN reqs : reqs[q].pc = "done"}}
ReqIds == 1..MaxReqs

Arrive == \E cookie \in IssuedSids \cup {NoCookie, ForgedSid} : dispatch(cookie)
LoadSession == \E r \in ReqIds : get_session_doc(r)
DeleteExpired == \E r \in ReqIds : delete_expired(r)
CreateSession == \E r \in ReqIds : create_session_doc(r)
Handle == \E r \in ReqIds, h \in {"view", "login", "logout"} : call_next(r, h)
SaveSession == \E r \in ReqIds : save_session_doc(r)
Day == TickTo(MaxDays)

NextSession ==
    \/ Arrive \/ LoadSession \/ DeleteExpired \/ CreateSession \/ Handle \/ SaveSession
    \/ Day

SpecSession == Init /\ [][NextSession]_vars

\* What each step of dispatch does for a request whose session is stale.
StaleSessionStep ==
    \A r \in DOMAIN reqs :
        LET before == reqs[r]
            after == reqs'[r]
            stored == before.cookie \in DOMAIN store
            loaded == before.pc = "find" /\ after.pc # "find"
        IN /\ (loaded /\ stored /\ store[before.cookie].expiresAt < now)
              => after.pc = "delete" /\ after.stale
           /\ (loaded /\ ~stored)
              => after.pc = "create" /\ after.stale
           /\ (before.pc = "delete" /\ after.pc # "delete")
              => before.cookie \notin DOMAIN store'
           /\ (after.stale /\ before.pc # "handle" /\ after.pc = "handle")
              => /\ after.session = EmptySession
                 /\ after.session_id # before.cookie
                 /\ after.session_id \notin DOMAIN store
                 /\ \A q \in DOMAIN reqs \ {r} : reqs[q].session_id # after.session_id
           /\ (after.stale /\ before.pc # "done" /\ after.pc = "done")
              => /\ after.set_cookie = after.session_id
                 /\ after.set_cookie # before.cookie

OnSession(sid, r) == {q \in DOMAIN reqs \ {r} : reqs[q].session_id = sid}

\* The requests on session sid other than r have finished, and each of them
\* had finished when the next one, or r, came.
OneAtATime(sid, r) ==
    /\ \A q \in OnSession(sid, r) : reqs[q].pc = "done"
    /\ \A q1, q2 \in OnSession(sid, r) \cup {r} : q1 < q2 => q1 \in reqs[q2].prior

Latest(S) == CHOOSE q \in S : \A p \in S : p <= q

\* What the steps of dispatch do for a session whose requests come in turn.
SessionRoundTripStep ==
    \A r \in DOMAIN reqs :
        LET before == reqs[r]
            after == reqs'[r]
            sid == before.cookie
            loaded == before.pc = "find" /\ after.pc # "find"
            saved == before.pc = "save" /\ after.pc = "done"
        IN /\ ( /\ loaded
                /\ OneAtATime(sid, r)
                /\ OnSession(sid, r) # {}
                /\ reqs[Latest(OnSession(sid, r))].saved_at + SESSION_LIFETIME_DAYS >= now )
              => /\ after.pc = "handle"
                 /\ after.session_id = sid
                 /\ after.session = reqs[Latest(OnSession(sid, r))].session
           /\ saved
              => /\ after.session_id \in DOMAIN store'
                 /\ store'[after.session_id].data = after.session
                 /\ store'[after.session_id].expiresAt = now + SESSION_LIFETIME_DAYS

FlashInputs == {<<"a", "info">>, <<"b", "danger">>}

Flash == \E r \in ReqIds, i \in FlashInputs : HandlerFlashes(r, i[1], i[2], MaxCalls)
GetFlashed == \E r \in ReqIds : HandlerGets(r, MaxCalls)
Respond == \E r \in ReqIds : call_next(r, "view")
FlashLater == \E r \in ReqIds, i \in FlashInputs : BackgroundFlashes(r, i[1], i[2], MaxCalls)

NextFlash ==
    \/ Arrive \/ LoadSession \/ CreateSession
    \/ Flash \/ GetFlashed \/ Respond \/ SaveSession
    \/ FlashLater

SpecFlash == Init /\ [][NextFlash]_vars

\* The calls made on session sid
CallsOn(sid) ==
    UNION {{reqs[q].log[k] : k \in 1..Len(reqs[q].log)} :
           q \in {p \in DOMAIN reqs : reqs[p].session_id = sid}}

\* The items of a set of calls in the order the calls were made
RECURSIVE InOrder(_)
InOrder(calls) ==
    IF calls = {} THEN <<>>
    ELSE LET first == CHOOSE c \in calls : \A d \in calls : c.at <= d.at
         IN first.items \o InOrder(calls \ {first})

\* The messages flashed on session sid since the last get_flashed_messages on it
FlashedSinceGet(sid) ==
    LET gets == {c \in CallsOn(sid) : c.op = "get"}
        since == {c \in CallsOn(sid) : c.op = "flash" /\ \A g \in gets : g.at < c.at}
    IN InOrder(since)

\* Session sid is used in sequence: the other requests on it have finished,
\* each before the next came, and all their calls were made before r came.
UsedInSequence(sid, r) ==
    /\ OneAtATime(sid, r)
    /\ \A q \in OnSession(sid, r) :
          \A k \in 1..Len(reqs[q].log) : reqs[q].log[k].at <= reqs[r].came

\* What a call of get_flashed_messages returns in a session used in sequence.
GetFlashedStep ==
    \A r \in DOMAIN reqs :
        LET before == reqs[r]
            after == reqs'[r]
            sid == before.session_id
        IN ( /\ Len(after.log) = Len(before.log) + 1
             /\ after.log[Len(after.log)].op = "get"
             /\ UsedInSequence(sid, r) )
           => /\ after.log[Len(after.log)].items = FlashedSinceGet(sid)
              /\ FlashMessages(after.session) = <<>>

\* C12: in a session used in sequence, a call of get_flashed_messages returns
\* the messages flashed on the session since the previous call, in the order
\* they were flashed, and leaves none in the session (so that no message is
\* returned twice and a second call without a flash returns the empty list).
C12_FlashedOnce == [][GetFlashedStep]_vars

\* A request that came after an earlier request of its session had answered
\* and its background task had flashed, and whose get_flashed_messages
\* returned the empty list.
C12_Witness ==
    \E r \in DOMAIN reqs, q \in DOMAIN reqs :
        /\ q < r
        /\ reqs[r].session_id = reqs[q].session_id
        /\ UsedInSequence(reqs[r].session_id, r)
        /\ reqs[q].log # <<>>
        /\ reqs[q].log[Len(reqs[q].log)].op = "flash"
        /\ reqs[q].log[Len(reqs[q].log)].saved
        /\ reqs[r].log # <<>>
        /\ reqs[r].log[1].op = "get"
        /\ reqs[r].log[1].items = <<>>

\* ----------------------------------------------- specification SpecLogout
\* The requests of one browser session that is logged in and has a selected
\* site: pages, logouts and logins, handled concurrently.
InitLogout ==
    /\ now = 1
    /\ session = EmptySession
    /\ clusters = {}
    /\ links = {}
    /\ perf = {}
    /\ domains = {}
    /\ tasks = <<>>
    /\ nextCluster = 1
    /\ nextLink = 1
    /\ nextTask = 1
    /\ store = 1 :> [data |-> [AfterCallback(EmptySession, "u1", "full", TRUE)
                                 EXCEPT !.selected_site = StoreSite],
                      expiresAt |-> now + SESSION_LIFETIME_DAYS]
    /\ reqs = <<>>
    /\ nextSid = 2

ArriveLoggedIn == \E cookie \in DOMAIN store : dispatch(cookie)

NextLogout ==
    \/ ArriveLoggedIn \/ LoadSession \/ Handle \/ SaveSession
    \/ Tick

SpecLogout == InitLogout /\ [][NextLogout]_vars

\* Request q, a logout of its session, has completed, and every login on the
\* session had completed before q came.
LoggedOut(q) ==
    /\ reqs[q].pc = "done"
    /\ reqs[q].handler = "logout"
    /\ reqs[q].session_id \in DOMAIN store
    /\ \A p \in OnSession(reqs[q].session_id, q) :
          reqs[p].handler = "login" => p \in reqs[q].prior

\* C13: once a logout request of a session has completed, and until a later
\* login on that session, the stored session holds no credentials, no
\* user_id and no selected_site, whatever other requests of the session were
\* in flight while the logout ran.
C13_LogoutSticks ==
    \A q \in DOMAIN reqs :
        LoggedOut(q) => LET data == store[reqs[q].session_id].data
                        IN /\ data.credentials = None
                           /\ data.user_id = None
                           /\ data.selected_site = None

\* A completed logout after which a request that had loaded the session
\* before the logout saved it: the stored session is logged in again.
C13_Witness ==
    \E q, p \in DOMAIN reqs :
        /\ LoggedOut(q)
        /\ p # q
        /\ reqs[p].handler = "view"
        /\ reqs[p].pc = "done"
        /\ q \notin reqs[p].before
        /\ reqs[p].session_id = reqs[q].session_id
        /\ store[reqs[q].session_id].data.user_id = "u1"
        /\ store[reqs[q].session_id].data.credentials = "full"
        /\ store[reqs[q].session_id].data.selected_site = StoreSite

\* ------------------------------------------------ specification SpecNames
\* new_cluster_json_action and edit_cluster_action of one logged-in user with
\* a selected site, several requests at a time, and trash_cluster.
NamePayloads ==
    {<<[clusterName |-> n, deviceFilter |-> "", countryFilter |-> <<>>]>> : n \in {"a", " a", " "}}
    \cup {<<[clusterName |-> "b", deviceFilter |-> "", countryFilter |-> <<>>],
            [clusterName |-> "a", deviceFilter |-> "", countryFilter |-> <<>>]>>}

InitNames ==
    /\ now = 1
    /\ session = [user_id |-> "u1", selected_site |-> StoreSite, credentials |-> "full"]
    /\ clusters = {}
    /\ links = {}
    /\ perf = {}
    /\ domains = {}
    /\ tasks = <<>>
    /\ nextCluster = 1
    /\ nextLink = 1
    /\ nextTask = 1
    /\ store = <<>>
    /\ reqs = <<>>
    /\ nextSid = 1

NewClusterBegins == \E payload \in NamePayloads : new_cluster_begin(payload)
NewClusterChecks == \E r \in ReqIds : new_cluster_check(r)
NewClusterInserts == \E r \in ReqIds : new_cluster_insert(r, MaxNamed)
EditClusterBegins ==
    \E c \in 1..MaxNamed, n \in {"a", " a", " "} : edit_cluster_begin(c, n, "", <<" ">>)
EditClusterChecks == \E r \in ReqIds : edit_cluster_check(r)
EditClusterUpdates == \E r \in ReqIds : edit_cluster_update(r)

NextNames ==
    \/ NewClusterBegins \/ NewClusterChecks \/ NewClusterInserts
    \/ EditClusterBegins \/ EditClusterChecks \/ EditClusterUpdates
    \/ TrashCluster

SpecNames == InitNames /\ [][NextNames]_vars

\* C14: there is at most one cluster document, trashed or not, per userId,
\* domain and clusterName, under new_cluster_json_action and
\* edit_cluster_action requests that may run at the same time.
C14_UniqueClusterNames ==
    \A c, d \in clusters :
        (c.userId = d.userId /\ c.domain = d.domain /\ c.clusterName = d.clusterName)
        => c.id = d.id

\* Two cluster documents of one user, domain and name, after two requests
\* that have both returned.
C14_Witness ==
    /\ \E c, d \in clusters :
          /\ c.id # d.id
          /\ c.userId = d.userId /\ c.domain = d.domain /\ c.clusterName = d.clusterName
    /\ \A r \in DOMAIN reqs : reqs[r].pc = "done"

\* ------------------------------- links and their clusters (specification Spec)
\* C15: under requests handled one at a time, no cluster holds two links
\* that are both not deleted and have the same url.
C15_LiveUrlsUnique ==
    \A l, m \in links :
        (l.clusterId = m.clusterId /\ l.url = m.url /\ l.deleted = FALSE /\ m.deleted = FALSE)
        => l.id = m.id

\* Two links of one url, both restored or never trashed, in a cluster that
\* is not deleted.
C15_Witness ==
    \E l, m \in links, c \in clusters :
        /\ l.id < m.id
        /\ l.clusterId = c.id /\ m.clusterId = c.id /\ c.deleted = FALSE
        /\ l.url = m.url
        /\ l.deleted = FALSE /\ m.deleted = FALSE

\* C16: every link that is not deleted belongs to a cluster that exists and
\* is not deleted.
C16_LiveLinkInLiveCluster ==
    \A l \in links :
        l.deleted = FALSE => \E c \in clusters : c.id = l.clusterId /\ c.deleted = FALSE

\* A restored link in a cluster that is in the trash.
C16_Witness ==
    \E l \in links, c \in clusters :
        /\ c.id = l.clusterId
        /\ c.deleted = TRUE
        /\ l.deleted = FALSE /\ l.deletedAt = NoTime

\* C17: every link_performance row that is not marked deleted belongs to a
\* link that exists and is not marked deleted, also when a fetch finishes
\* after its link was trashed or permanently deleted.
C17_LiveRowOfLiveLink ==
    \A r \in perf :
        r.deleted # "true" => \E l \in links : l.id = r.linkId /\ l.deleted = FALSE

\* A row without the deleted mark, written by a fetch that has completed, of
\* a link that is in the trash or gone.
C17_Witness ==
    \E r \in perf :
        /\ r.deleted = "absent"
        /\ tasks[r.by].result = "complete"
        /\ \A l \in links : l.id = r.linkId => l.deleted = TRUE
        /\ \A t \in DOMAIN tasks : tasks[t].pc = "done"

\* ------------------------- the fetch and its link (specification SpecFetch)
\* A fetch that returns leaves the status 'complete' or 'error'.
FetchEndsStep ==
    \A t \in DOMAIN tasks :
        (tasks[t].pc # "done" /\ tasks'[t].pc = "done")
        => \A l \in links' : l.id = tasks[t].link.id => l.status \in {"complete", "error"}

\* C18: in the step in which the fetch scheduled for a link returns, the
\* link's status is 'complete' or 'error', and not 'processing'.
C18_FetchLeavesProcessing == [][FetchEndsStep]_vars

\* A link still 'processing' after its only fetch returned, with no query
\* having raised: Search Console had no rows for the url.
C18_Witness ==
    \E t \in DOMAIN tasks :
        /\ DOMAIN tasks = {t}
        /\ tasks[t].pc = "done"
        /\ tasks[t].result = "empty"
        /\ ~tasks[t].failed
        /\ LinkStatus(tasks[t].link.id) = {"processing"}

\* C19: link_performance holds at most one row per linkId and date, also
\* under fetches of one link that run at the same time, each upsert being one
\* atomic operation.
C19_OneRowPerDate ==
    \A r, q \in perf : (r.linkId = q.linkId /\ r.date = q.date) => r = q

\* Two fetches of one link that overlapped, both completed, both with a row
\* for a date that the collection holds.
C19_Witness ==
    \E t1, t2 \in DOMAIN tasks, r \in perf :
        /\ t1 < t2
        /\ tasks[t1].link.id = tasks[t2].link.id
        /\ tasks[t1].result = "complete" /\ tasks[t2].result = "complete"
        /\ t1 \notin tasks[t2].prior /\ t2 \notin tasks[t1].prior
        /\ r.linkId = tasks[t1].link.id
        /\ \E q \in RunOn({}, t1) : q.date = r.date
        /\ \E q \in RunOn({}, t2) : q.date = r.date

====
